---- MODULE Spec2Model ----
(***************************************************************************)
(* Model of the codigo-penal extraction pipeline:                          *)
(*   scripts/extract_pdf.py   layout segmenter, line classifier and the    *)
(*                            structural line stream builder                *)
(*   split_articles.py        article boundary resolver and file emitter   *)
(*   verify_joined_texts.py   the verifier's join of the article files     *)
(* Text is a sequence of one-character strings.  Line numbers, ranges and  *)
(* loop indexes keep Python's zero-based values; PyAt reads a zero-based   *)
(* position of a sequence.                                                 *)
(***************************************************************************)
EXTENDS Integers, Sequences, FiniteSets, TLC

VARIABLES
    \* split_articles.py / verify_joined_texts.py
    lines, metadata, title_block_candidates, line_meta, articles,
    i, prev_end_line, order_width, out_dir, written, joined, pc,
    \* scripts/extract_pdf.py, layout segmenter
    page, sep_x, content_top, content_bottom, lpc,
    \* scripts/extract_pdf.py, detect_line_type
    line_text_in, word_lines_in, line_type, cpc,
    \* scripts/extract_pdf.py, stream builder
    num_pages, page_num, col, text_lines, col_word_lines, pos,
    all_text_lines, headers, current_line_num, spc

splitVars == <<lines, metadata, title_block_candidates, line_meta, articles,
               i, prev_end_line, order_width, out_dir, written, joined, pc>>
layoutVars == <<page, sep_x, content_top, content_bottom, lpc>>
classVars == <<line_text_in, word_lines_in, line_type, cpc>>
streamVars == <<num_pages, page_num, col, text_lines, col_word_lines, pos,
                all_text_lines, headers, current_line_num, spc>>
vars == <<splitVars, layoutVars, classVars, streamVars>>

None == "None"

-----------------------------------------------------------------------------
(* Python built-ins on text *)

UpperChars == {"A", "B", "C", "D", "E", "F", "G", "H", "I", "J", "K", "L", "M",
               "N", "O", "P", "Q", "R", "S", "T", "U", "V", "W", "X", "Y", "Z",
               "Í", "Ó"}
LowerChars == {"a", "b", "c", "d", "e", "f", "g", "h", "i", "j", "k", "l", "m",
               "n", "o", "p", "q", "r", "s", "t", "u", "v", "w", "x", "y", "z",
               "í", "ó"}
DigitChars == {"0", "1", "2", "3", "4", "5", "6", "7", "8", "9"}
SpaceChars == {" ", "\t"}

PyAt(s, k) == s[k + 1]

\* s[a:b] for 0 <= a, clipped to the string
Slice(s, a, b) == SubSeq(s, a + 1, IF b > Len(s) THEN Len(s) ELSE b)

startswith(s, p) == Len(p) <= Len(s) /\ \A k \in 1..Len(p) : s[k] = p[k]

\* p in s
Contains(s, p) ==
    \E a \in 0..(Len(s) - Len(p)) : \A k \in 1..Len(p) : s[a + k] = p[k]

LowerMap ==
    ("A" :> "a") @@ ("B" :> "b") @@ ("C" :> "c") @@ ("D" :> "d") @@ ("E" :> "e") @@
    ("F" :> "f") @@ ("G" :> "g") @@ ("H" :> "h") @@ ("I" :> "i") @@ ("J" :> "j") @@
    ("K" :> "k") @@ ("L" :> "l") @@ ("M" :> "m") @@ ("N" :> "n") @@ ("O" :> "o") @@
    ("P" :> "p") @@ ("Q" :> "q") @@ ("R" :> "r") @@ ("S" :> "s") @@ ("T" :> "t") @@
    ("U" :> "u") @@ ("V" :> "v") @@ ("W" :> "w") @@ ("X" :> "x") @@ ("Y" :> "y") @@
    ("Z" :> "z") @@ ("Í" :> "í") @@ ("Ó" :> "ó")

\* str.lower()
lower(s) == [k \in 1..Len(s) |-> IF s[k] \in UpperChars THEN LowerMap[s[k]] ELSE s[k]] \o <<>>

\* str.isupper(): some cased character, and no lower-case one
isupper(s) ==
    /\ \E k \in 1..Len(s) : s[k] \in UpperChars
    /\ \A k \in 1..Len(s) : s[k] \notin LowerChars

\* str.strip()
strip(s) ==
    LET keep == {k \in 1..Len(s) : s[k] \notin SpaceChars}
    IN  IF keep = {} THEN <<>>
        ELSE SubSeq(s, CHOOSE k \in keep : \A m \in keep : k <= m,
                       CHOOSE k \in keep : \A m \in keep : m <= k)

\* regular expression pieces: the position after the longest run of
\* characters of class cls that starts at zero-based position p
RECURSIVE SkipRun(_, _, _)
SkipRun(s, p, cls) ==
    IF p < Len(s) /\ PyAt(s, p) \in cls THEN SkipRun(s, p + 1, cls) ELSE p

\* int() of a string of decimal digits
DigitVal(c) ==
    CASE c = "0" -> 0 [] c = "1" -> 1 [] c = "2" -> 2 [] c = "3" -> 3
      [] c = "4" -> 4 [] c = "5" -> 5 [] c = "6" -> 6 [] c = "7" -> 7
      [] c = "8" -> 8 [] c = "9" -> 9

RECURSIVE int(_)
int(s) ==
    IF s = <<>> THEN 0
    ELSE 10 * int(SubSeq(s, 1, Len(s) - 1)) + DigitVal(s[Len(s)])

DigitOf(d) == <<"0", "1", "2", "3", "4", "5", "6", "7", "8", "9">>[d + 1]

\* str() of a natural number
RECURSIVE str(_)
str(n) == IF n < 10 THEN <<DigitOf(n)>> ELSE str(n \div 10) \o <<DigitOf(n % 10)>>

\* format(n, "0{w}d"): decimal digits, left-padded with zeros to width w
RECURSIVE ZeroPad(_, _)
ZeroPad(s, w) == IF Len(s) >= w THEN s ELSE ZeroPad(<<"0">> \o s, w)

\* code-point order of the characters that occur in file names
CodeOrder == <<"-", ".", "0", "1", "2", "3", "4", "5", "6", "7", "8", "9",
               "A", "B", "C", "D", "E", "F", "G", "H", "I", "J", "K", "L", "M",
               "N", "O", "P", "Q", "R", "S", "T", "U", "V", "W", "X", "Y", "Z",
               "_", "a", "b", "c", "d", "e", "f", "g", "h", "i", "j", "k", "l",
               "m", "n", "o", "p", "q", "r", "s", "t", "u", "v", "w", "x", "y",
               "z">>
ord(c) == CHOOSE k \in 1..Len(CodeOrder) : CodeOrder[k] = c

\* a < b for strings, as Python compares them
StrLess(a, b) ==
    \/ /\ Len(a) < Len(b)
       /\ \A k \in 1..Len(a) : a[k] = b[k]
    \/ \E k \in 1..Len(a) :
          /\ k <= Len(b)
          /\ \A m \in 1..(k - 1) : a[m] = b[m]
          /\ ord(a[k]) < ord(b[k])

-----------------------------------------------------------------------------
(* scripts/extract_pdf.py: detect_line_type *)

AsciiUpper == UpperChars \ {"Í", "Ó"}

ARTICULO_WORD == <<"A", "r", "t", "í", "c", "u", "l", "o">>

\* the position after the number of 'Artículo\s+\d+(?:-[A-Z])?' matched at
\* the start of s, or -1 when it does not match
ArticuloNumEnd(s) ==
    IF ~startswith(s, ARTICULO_WORD) THEN -1
    ELSE LET p0 == Len(ARTICULO_WORD)
             p1 == SkipRun(s, p0, SpaceChars)
             p2 == SkipRun(s, p1, DigitChars)
         IN  IF p1 = p0 \/ p2 = p1 THEN -1
             ELSE IF /\ p2 + 1 < Len(s)
                     /\ PyAt(s, p2) = "-"
                     /\ PyAt(s, p2 + 1) \in AsciiUpper
                  THEN p2 + 2
                  ELSE p2

\* ArticuloHeaderRe with no whitespace allowed between the number and ".-"
ArticuloHeaderRe_m(s) ==
    LET p3 == ArticuloNumEnd(s)
    IN  /\ p3 >= 0
        /\ p3 + 1 < Len(s)
        /\ PyAt(s, p3) = "."
        /\ PyAt(s, p3 + 1) = "-"

\* re.match(r'^Artículo\s+\d+(?:-[A-Z])?\s*\.-', s)
ArticuloHeaderRe(s) ==
    LET p3 == ArticuloNumEnd(s)
    IN  /\ p3 >= 0
        /\ LET p4 == SkipRun(s, p3, SpaceChars)
           IN  /\ p4 + 1 < Len(s)
               /\ PyAt(s, p4) = "."
               /\ PyAt(s, p4 + 1) = "-"

\* re.match(r'^\d+\.', s)
NumberedItemRe(s) ==
    LET p == SkipRun(s, 0, DigitChars)
    IN  p > 0 /\ p < Len(s) /\ PyAt(s, p) = "."

TITULO_WORD == <<"T", "Í", "T", "U", "L", "O">>
CAPITULO_WORD == <<"C", "A", "P", "Í", "T", "U", "L", "O">>
SECCION_WORD == <<"S", "E", "C", "C", "I", "Ó", "N">>
LIBRO_WORD == <<"L", "I", "B", "R", "O">>

\* the index of the first word line whose first 30 characters contain, or
\* are contained in, the first 30 characters of the line; 0 when there is
\* none.  Word lines carry the size in tenths of a point.
FontInfo(text, word_lines) ==
    LET line_lower == lower(Slice(text, 0, 30))
        hit(k) == LET wl_lower == lower(Slice(word_lines[k].text, 0, 30))
                  IN  Contains(wl_lower, line_lower) \/ Contains(line_lower, wl_lower)
        hits == {k \in 1..Len(word_lines) : hit(k)}
    IN  IF hits = {} THEN 0
        ELSE CHOOSE k \in hits : \A m \in hits : k <= m

detect_line_type(raw_text, word_lines) ==
    LET line_text == strip(raw_text)
        font_info == FontInfo(line_text, word_lines)
        is_bold == IF font_info # 0 THEN word_lines[font_info].is_bold ELSE FALSE
        size == IF font_info # 0 THEN word_lines[font_info].size ELSE 90
    IN  IF line_text = <<>> THEN None
        ELSE IF ArticuloHeaderRe(line_text) THEN "ARTICULO"
        ELSE IF Contains(line_text, LIBRO_WORD) /\ isupper(line_text) THEN "LIBRO"
        ELSE IF Contains(line_text, TITULO_WORD) \/ startswith(line_text, TITULO_WORD)
             THEN "TITULO"
        ELSE IF Contains(line_text, CAPITULO_WORD) \/ startswith(line_text, CAPITULO_WORD)
             THEN "CAPITULO"
        ELSE IF Contains(line_text, SECCION_WORD) \/ startswith(line_text, SECCION_WORD)
             THEN "SECCION"
        ELSE IF is_bold /\ isupper(line_text) /\ Len(line_text) < 60 /\ Len(line_text) > 3
             THEN "H2"
        ELSE IF /\ is_bold /\ size >= 85 /\ size < 100
                /\ Len(line_text) < 80 /\ ~isupper(line_text)
                /\ ~NumberedItemRe(line_text)
                /\ line_text[1] \in UpperChars
             THEN "ART_TITLE"
        ELSE None

-----------------------------------------------------------------------------
(* split_articles.py: text heuristics *)

\* re.match(r'^(N[º°]\s*\d+|Ley\s+N[º°]\s*\d+|No\.\s*\d+)', text)
NumeroRe(s, p) ==
    /\ p + 1 < Len(s)
    /\ PyAt(s, p) = "N"
    /\ PyAt(s, p + 1) \in {"º", "°"}
    /\ LET q == SkipRun(s, p + 2, SpaceChars)
       IN  SkipRun(s, q, DigitChars) > q

FootnoteRe(s) ==
    \/ NumeroRe(s, 0)
    \/ /\ startswith(s, <<"L", "e", "y">>)
       /\ LET q == SkipRun(s, 3, SpaceChars) IN q > 3 /\ NumeroRe(s, q)
    \/ /\ startswith(s, <<"N", "o", ".">>)
       /\ LET q == SkipRun(s, 3, SpaceChars) IN SkipRun(s, q, DigitChars) > q

PUBLICADA_EL == <<"p", "u", "b", "l", "i", "c", "a", "d", "a", " ", "e", "l">>
MODIFICADO_POR == <<"m", "o", "d", "i", "f", "i", "c", "a", "d", "o", " ", "p", "o", "r">>
INCORPORADO_POR == <<"i", "n", "c", "o", "r", "p", "o", "r", "a", "d", "o", " ", "p", "o", "r">>
SUSTITUIDO_POR == <<"s", "u", "s", "t", "i", "t", "u", "i", "d", "o", " ", "p", "o", "r">>
ASTERISK_MARK == <<"(", "*", ")">>

is_footnote_line(line_text) ==
    LET text == strip(line_text)
        lowered == lower(text)
    IN  IF text = <<>> THEN FALSE
        ELSE IF FootnoteRe(text) THEN TRUE
        ELSE IF Contains(lowered, PUBLICADA_EL) THEN TRUE
        ELSE IF \/ Contains(lowered, MODIFICADO_POR)
                \/ Contains(lowered, INCORPORADO_POR)
                \/ Contains(lowered, SUSTITUIDO_POR) THEN TRUE
        ELSE IF Contains(text, ASTERISK_MARK) THEN TRUE
        ELSE FALSE

\* chr(8220) and chr(8221) are written U+201C and U+201D
quote_chars == {"\"", "U+201C", "U+201D", "«", "»"}

is_likely_title(line_text) ==
    IF line_text = <<>> THEN FALSE
    ELSE IF is_footnote_line(line_text) THEN FALSE
    ELSE IF line_text[1] \in quote_chars /\ Len(line_text) < 80 THEN TRUE
    ELSE IF isupper(line_text) /\ Len(line_text) < 80 THEN TRUE
    ELSE FALSE

HeadingTypes == {"ART_TITLE", "H2", "CAPITULO", "SECCION", "TITULO", "LIBRO"}

is_title_continuation_line(ls, lm, idx) ==
    IF idx <= 0 \/ idx >= Len(ls) THEN FALSE
    ELSE IF (idx - 1) \notin DOMAIN lm THEN FALSE
    ELSE IF lm[idx - 1].type # "ART_TITLE" THEN FALSE
    ELSE LET text == strip(PyAt(ls, idx))
         IN  IF text = <<>> \/ is_footnote_line(text) THEN FALSE
             ELSE IF startswith(text, ARTICULO_WORD) THEN FALSE
             ELSE TRUE

\* for every likely title line a, the first Articulo header among the next
\* five lines marks the non-empty, non-footnote lines a..k-1
build_title_block_candidates(ls) ==
    LET n == Len(ls)
        header == [k \in 0..(n - 1) |-> ArticuloHeaderRe(strip(PyAt(ls, k)))]
        ahead(a) == {k \in (a + 1)..((IF a + 6 < n THEN a + 6 ELSE n) - 1) : header[k]}
        first(a) == CHOOSE k \in ahead(a) : \A m \in ahead(a) : k <= m
        marked(a) ==
            IF is_likely_title(PyAt(ls, a)) /\ ahead(a) # {}
            THEN {j \in a..(first(a) - 1) :
                     strip(PyAt(ls, j)) # <<>> /\ ~is_footnote_line(PyAt(ls, j))}
            ELSE {}
    IN  UNION {marked(a) : a \in 0..(n - 1)}

-----------------------------------------------------------------------------
(* split_articles.py: split_articles *)

Window == 30

\* line -> header; a later header of the same line replaces an earlier one
RECURSIVE LineMetaOf(_)
LineMetaOf(hs) ==
    IF hs = <<>> THEN <<>>
    ELSE LET h == hs[Len(hs)]
         IN  (h.line :> h) @@ LineMetaOf(SubSeq(hs, 1, Len(hs) - 1))

\* group(1) of re.match(r'Artículo\s+(\d+(?:-[A-Z])?)', text)
ArticuloNum(text) ==
    Slice(text, SkipRun(text, Len(ARTICULO_WORD), SpaceChars), ArticuloNumEnd(text))

RECURSIVE ArticlesOf(_)
ArticlesOf(hs) ==
    IF hs = <<>> THEN <<>>
    ELSE LET h == Head(hs)
         IN  (IF h.type = "ARTICULO" /\ ArticuloNumEnd(h.text) >= 0
              THEN <<[num |-> ArticuloNum(h.text), line |-> h.line, page |-> h.page]>>
              ELSE <<>>) \o ArticlesOf(Tail(hs))

\* title_block_start with a heading line putting the block start one line
\* above itself
RECURSIVE title_block_start_m(_, _, _)
title_block_start_m(j, art_line, tbs) ==
    IF j <= art_line THEN tbs
    ELSE LET line_text == IF j < Len(lines) THEN strip(PyAt(lines, j)) ELSE <<>>
         IN  IF j \in DOMAIN line_meta
             THEN IF line_meta[j].type \in HeadingTypes
                  THEN title_block_start_m(j - 1, art_line, j - 1)
                  ELSE tbs
             ELSE IF line_text = <<>>
                  THEN title_block_start_m(j - 1, art_line, tbs)
             ELSE IF is_title_continuation_line(lines, line_meta, j)
                  THEN title_block_start_m(j - 1, art_line, j - 1)
             ELSE IF j \in title_block_candidates
                  THEN title_block_start_m(j - 1, art_line, j)
             ELSE tbs

\* the backward scan from the next article's header, at line j
RECURSIVE title_block_start(_, _, _)
title_block_start(j, art_line, tbs) ==
    IF j <= art_line THEN tbs
    ELSE LET line_text == IF j < Len(lines) THEN strip(PyAt(lines, j)) ELSE <<>>
         IN  IF j \in DOMAIN line_meta
             THEN IF line_meta[j].type \in HeadingTypes
                  THEN title_block_start(j - 1, art_line, j)
                  ELSE tbs
             ELSE IF line_text = <<>>
                  THEN title_block_start(j - 1, art_line, tbs)
             ELSE IF is_title_continuation_line(lines, line_meta, j)
                  THEN title_block_start(j - 1, art_line, j - 1)
             ELSE IF j \in title_block_candidates
                  THEN title_block_start(j - 1, art_line, j)
             ELSE IF is_footnote_line(line_text)
                  THEN tbs
             ELSE tbs

\* end_line with the last article ending one line short of the stream
end_line_m(k) ==
    IF k + 1 < Len(articles)
    THEN LET next_art_line == articles[k + 2].line
         IN  title_block_start(next_art_line - 1, articles[k + 1].line, next_art_line)
    ELSE Len(lines) - 1

end_line(k) ==
    IF k + 1 < Len(articles)
    THEN LET next_art_line == articles[k + 2].line
         IN  title_block_start(next_art_line - 1, articles[k + 1].line, next_art_line)
    ELSE Len(lines)

\* the backward scan from the article's own header, at line j
RECURSIVE title_start_scan(_, _, _)
title_start_scan(j, stop, ts) ==
    IF j <= stop THEN ts
    ELSE LET line_text == IF j < Len(lines) THEN strip(PyAt(lines, j)) ELSE <<>>
         IN  IF j \in DOMAIN line_meta
             THEN IF line_meta[j].type \in HeadingTypes
                  THEN title_start_scan(j - 1, stop, j)
                  ELSE ts
             ELSE IF line_text = <<>>
                  THEN title_start_scan(j - 1, stop, ts)
             ELSE IF is_title_continuation_line(lines, line_meta, j)
                  THEN title_start_scan(j - 1, stop, j - 1)
             ELSE IF j \in title_block_candidates
                  THEN title_start_scan(j - 1, stop, j)
             ELSE IF is_footnote_line(line_text)
                  THEN ts
             ELSE ts

ScanStop(art_line) == IF art_line - Window > 0 THEN art_line - Window ELSE 0

title_start(k) ==
    LET art_line == articles[k + 1].line
        ts == title_start_scan(art_line - 1, ScanStop(art_line), art_line)
    IN  IF k > 0 /\ ts < prev_end_line THEN prev_end_line ELSE ts

\* order_prefix without the zero padding
order_prefix_m(k) == str(k + 1)

order_prefix(k) == ZeroPad(str(k + 1), order_width)

filename(k, art_num) ==
    LET dash == SkipRun(art_num, 0, DigitChars)
        stem == order_prefix(k) \o <<"_", "a", "r", "t", "i", "c", "u", "l", "o", "_">>
        ext == <<".", "t", "x", "t">>
    IN  IF Contains(art_num, <<"-">>)
        THEN stem \o ZeroPad(str(int(Slice(art_num, 0, dash))), 3)
                  \o <<"_">> \o Slice(art_num, dash + 1, Len(art_num)) \o ext
        ELSE stem \o ZeroPad(str(int(art_num)), 3) \o ext

\* lines 74-103: read both files, index the metadata, list the articles
ReadInputs ==
    /\ pc = "read"
    /\ title_block_candidates' = build_title_block_candidates(lines)
    /\ line_meta' = LineMetaOf(metadata)
    /\ articles' = ArticlesOf(metadata)
    /\ prev_end_line' = 0
    /\ order_width' = Len(str(Len(ArticlesOf(metadata))))
    /\ pc' = IF ArticlesOf(metadata) = <<>> THEN "written" ELSE "loop"
    /\ UNCHANGED <<lines, metadata, i, out_dir, written, joined>>
    /\ UNCHANGED <<layoutVars, classVars, streamVars>>

\* lines 104-185: one iteration of the per-article loop
ProcessArticle ==
    /\ pc = "loop"
    /\ i < Len(articles)
    /\ LET art == articles[i + 1]
           e == end_line(i)
           st == title_start(i)
           fn == filename(i, art.num)
       IN  /\ out_dir' = (fn :> [start |-> st, end |-> e]) @@ out_dir
           /\ written' = Append(written, [name |-> fn, start |-> st, end |-> e])
           /\ prev_end_line' = e
    /\ i' = i + 1
    /\ pc' = IF i + 1 < Len(articles) THEN "loop" ELSE "written"
    /\ UNCHANGED <<lines, metadata, title_block_candidates, line_meta, articles,
                   order_width, joined>>
    /\ UNCHANGED <<layoutVars, classVars, streamVars>>

-----------------------------------------------------------------------------
(* verify_joined_texts.py: join_article_texts *)

ARTICULO_TAG == <<"a", "r", "t", "i", "c", "u", "l", "o", "_">>

\* int(re.search(r"articulo_(\d+)", name).group(1))
ArticuloKey(name) ==
    LET n == Len(ARTICULO_TAG)
        hits == {p \in 0..(Len(name) - n - 1) :
                    /\ Slice(name, p, p + n) = ARTICULO_TAG
                    /\ PyAt(name, p + n) \in DigitChars}
        p == CHOOSE q \in hits : \A m \in hits : q <= m
    IN  int(Slice(name, p + n, SkipRun(name, p + n, DigitChars)))

\* sorted(items) for items [key, name], smallest first
RECURSIVE SortItems(_)
SortItems(items) ==
    IF items = {} THEN <<>>
    ELSE LET less(a, b) == \/ a.key < b.key
                           \/ a.key = b.key /\ StrLess(a.name, b.name)
             m == CHOOSE a \in items : \A b \in items : ~less(b, a)
         IN  <<m.name>> \o SortItems(items \ {m})

\* sorted(names, key=lambda name: (int(...), name))
SortedNames(names) == SortItems({[key |-> ArticuloKey(a), name |-> a] : a \in names})

JoinArticleTexts ==
    /\ pc = "written"
    /\ joined' = SortedNames(DOMAIN out_dir)
    /\ pc' = "done"
    /\ UNCHANGED <<lines, metadata, title_block_candidates, line_meta, articles,
                   i, prev_end_line, order_width, out_dir, written>>
    /\ UNCHANGED <<layoutVars, classVars, streamVars>>

-----------------------------------------------------------------------------
(* Inputs of split_articles: a line stream and the metadata the stream     *)
(* builder records for it                                                   *)

MaxLen == 4
MaxOver == 1

TXT_BLANK == <<" ">>
TXT_FOOTNOTE == <<"N", "°", " ", "1">>
TXT_TITULO_NOTE == <<"T", "Í", "T", "U", "L", "O", " ", "(", "*", ")">>
TXT_TITULO == <<"T", "Í", "T", "U", "L", "O", " ", "I">>
TXT_UPPER == <<"P", "E", "N", "A">>
TXT_ART_15 == <<"A", "r", "t", "í", "c", "u", "l", "o", " ", "1", "5", ".", "-">>
TXT_ART_15A == <<"A", "r", "t", "í", "c", "u", "l", "o", " ", "1", "5", "-", "A", ".", "-">>
TXT_ART_16 == <<"A", "r", "t", "í", "c", "u", "l", "o", " ", "1", "6", ".", "-">>
TXT_ART_2 == <<"A", "r", "t", "í", "c", "u", "l", "o", " ", "2", ".", "-", " ", "(", "*", ")">>
TXT_XREF == <<"A", "r", "t", "í", "c", "u", "l", "o", " ", "4">>
TXT_TITLE == <<"R", "o", "b", "o">>
TXT_BODY == <<"e", "l">>

\* a line of the text file with the type the classifier gives it when the
\* matching word line is bold or not
Classified(t, bold) ==
    [text |-> t,
     type |-> detect_line_type(t, <<[text |-> strip(t), is_bold |-> bold, size |-> 90]>>)]

LineChoices ==
    {Classified(TXT_BLANK, FALSE), Classified(TXT_FOOTNOTE, FALSE),
     Classified(TXT_TITULO_NOTE, FALSE), Classified(TXT_TITULO, FALSE),
     Classified(TXT_UPPER, FALSE), Classified(TXT_ART_15, FALSE),
     Classified(TXT_ART_2, FALSE), Classified(TXT_XREF, FALSE),
     Classified(TXT_TITLE, TRUE), Classified(TXT_BODY, FALSE)}

RECURSIVE HeadersFrom(_, _)
HeadersFrom(f, k) ==
    IF k > Len(f) THEN <<>>
    ELSE (IF f[k].type # None
          THEN <<[line |-> k - 1, type |-> f[k].type, text |-> strip(f[k].text),
                  page |-> 1]>>
          ELSE <<>>) \o HeadersFrom(f, k + 1)

SeqsUpTo(S, n) == UNION {[1..m -> S] : m \in 0..n}

PadLens == (Window - 2)..(Window + MaxOver)

Repeat(x, n) == [k \in 1..n |-> x]

\* two heading lines and two articles (metadata TITULO, H2, ARTICULO,
\* ARTICULO), and the declared numbers 15, 15-A, 16
Scenarios ==
    {<<Classified(TXT_TITULO, FALSE), Classified(TXT_UPPER, TRUE),
       Classified(TXT_ART_15, FALSE), Classified(TXT_ART_15A, FALSE)>>,
     <<Classified(TXT_ART_15, FALSE), Classified(TXT_ART_15A, FALSE),
       Classified(TXT_ART_16, FALSE)>>}

\* streams of up to MaxLen lines, the scenarios, and streams with a long
\* run of one line between an optional first line and an optional closing
\* Articulo header
SplitInputs ==
    (SeqsUpTo(LineChoices, MaxLen) \ {<<>>})
    \cup Scenarios
    \cup {pre \o Repeat(x, n) \o post :
            pre \in SeqsUpTo(LineChoices, 1), x \in LineChoices, n \in PadLens,
            post \in {<<>>, <<Classified(TXT_ART_15A, FALSE)>>}}

IdleSplit ==
    /\ lines = <<>> /\ metadata = <<>> /\ title_block_candidates = {}
    /\ line_meta = <<>> /\ articles = <<>> /\ i = 0 /\ prev_end_line = 0
    /\ order_width = 0 /\ out_dir = <<>> /\ written = <<>> /\ joined = <<>>
    /\ pc = "idle"
IdleLayout ==
    /\ page = None /\ sep_x = 0 /\ content_top = 0 /\ content_bottom = 0
    /\ lpc = "idle"
IdleClass ==
    /\ line_text_in = <<>> /\ word_lines_in = <<>> /\ line_type = None
    /\ cpc = "idle"
IdleStream ==
    /\ num_pages = 0 /\ page_num = 0 /\ col = 0 /\ text_lines = <<>>
    /\ col_word_lines = <<>> /\ pos = 0 /\ all_text_lines = <<>>
    /\ headers = <<>> /\ current_line_num = 0 /\ spc = "idle"

InitSplit ==
    /\ \E f \in SplitInputs :
          /\ lines = [k \in 1..Len(f) |-> f[k].text]
          /\ metadata = HeadersFrom(f, 1)
    /\ title_block_candidates = {}
    /\ line_meta = <<>>
    /\ articles = <<>>
    /\ i = 0
    /\ prev_end_line = 0
    /\ order_width = 0
    /\ out_dir = <<>>
    /\ written = <<>>
    /\ joined = <<>>
    /\ pc = "read"
    /\ IdleLayout /\ IdleClass /\ IdleStream

NextSplit == ReadInputs \/ ProcessArticle \/ JoinArticleTexts

SpecSplit == InitSplit /\ [][NextSplit]_vars

-----------------------------------------------------------------------------
(* scripts/extract_pdf.py: the layout segmenter of extract_with_metadata   *)
(* (lines 18-48; extract_pdf.py lines 11-46 are the same computation).     *)
(* Page coordinates are whole points; sep_x, content_top and               *)
(* content_bottom are kept in hundredths of a point so that the fractions  *)
(* of the page size are exact.                                             *)

Hundredths == 100

Abs(n) == IF n < 0 THEN -n ELSE n

IsVertical(l) == Abs(l.x0 - l.x1) < 2

IsHorizontal(l) == Abs(l.y0 - l.y1) < 2

\* (l['x1'] - l['x0']) > page.width * 0.8
IsFullWidth(l) == IsHorizontal(l) /\ 10 * (l.x1 - l.x0) > 8 * page.width

\* l['y0'] > page.height * 0.95
InFooterZone(l) == 100 * l.y0 > 95 * page.height

\* max(vertical_lines, key=lambda l: abs(l['y1'] - l['y0'])): the first of
\* the longest
Separator(vertical_lines) ==
    LET best == {k \in 1..Len(vertical_lines) :
                    \A m \in 1..Len(vertical_lines) :
                        Abs(vertical_lines[m].y1 - vertical_lines[m].y0)
                          <= Abs(vertical_lines[k].y1 - vertical_lines[k].y0)}
    IN  vertical_lines[CHOOSE k \in best : \A m \in best : k <= m]

\* the smallest y0 of a non-empty list of lines
MinY0(ls) == CHOOSE y \in {ls[k].y0 : k \in 1..Len(ls)} :
                 \A k \in 1..Len(ls) : y <= ls[k].y0

ComputeLayout ==
    /\ lpc = "page"
    /\ LET vertical_lines == SelectSeq(page.lines, IsVertical)
           full_width_h_lines == SelectSeq(page.lines, IsFullWidth)
           footer_lines == SelectSeq(full_width_h_lines, InFooterZone)
       IN  /\ sep_x' = IF vertical_lines # <<>>
                       THEN Hundredths * Separator(vertical_lines).x0
                       ELSE (Hundredths * page.width) \div 2
           /\ content_top' = IF full_width_h_lines # <<>>
                             THEN Hundredths * (MinY0(full_width_h_lines) + 28)
                             ELSE 6 * page.height
           /\ content_bottom' = IF footer_lines # <<>>
                                THEN Hundredths * (MinY0(footer_lines) - 2)
                                ELSE 92 * page.height
    /\ lpc' = "boxes"
    /\ UNCHANGED page
    /\ UNCHANGED <<splitVars, classVars, streamVars>>

MaxSegments == 2

PageWidths == {600, 612}
PageHeights == {800}
XGrid == {0, 300, 600}
YGrid == {0, 40, 780, 800}

\* drawn line segments that lie on a page of the sizes above
Segments ==
    {l \in [x0 : XGrid, y0 : YGrid, x1 : XGrid, y1 : YGrid] :
        l.x0 <= l.x1 /\ l.y0 <= l.y1}

Pages ==
    {[width |-> w, height |-> h, lines |-> ls] :
        w \in PageWidths, h \in PageHeights,
        ls \in SeqsUpTo(Segments, MaxSegments)}

InitLayout ==
    /\ page \in Pages
    /\ sep_x = 0 /\ content_top = 0 /\ content_bottom = 0
    /\ lpc = "page"
    /\ IdleSplit /\ IdleClass /\ IdleStream

NextLayout == ComputeLayout

SpecLayout == InitLayout /\ [][NextLayout]_vars

\* C6: for every page with positive size and every set of line segments on
\* the page, 0 <= content_top < content_bottom <= height and
\* 0 < sep_x < width.
C6_LayoutTotal ==
    lpc = "boxes" =>
        /\ 0 <= content_top
        /\ content_top < content_bottom
        /\ content_bottom <= Hundredths * page.height
        /\ 0 < sep_x
        /\ sep_x < Hundredths * page.width

-----------------------------------------------------------------------------
(* scripts/extract_pdf.py: detect_line_type applied to one line and the    *)
(* word lines of its column                                                *)

Classify ==
    /\ cpc = "line"
    /\ line_type' = detect_line_type(line_text_in, word_lines_in)
    /\ cpc' = "typed"
    /\ UNCHANGED <<line_text_in, word_lines_in>>
    /\ UNCHANGED <<splitVars, layoutVars, streamVars>>

MaxWordLines == 1

LeadSpace == {<<>>, <<" ">>, <<"\t", " ">>}
WordGap == {<<" ">>, <<"\t", " ">>}
Digits == {<<"4">>, <<"4", "5">>}
LetterSuffix == {<<>>, <<"-", "A">>}
DotGap == {<<>>, <<" ">>, <<" ", "\t">>}
AfterHeader == {<<>>, <<" ", "E", "l">>}
AfterBare == {<<>>, <<".">>, <<" ", "y">>}
TrailSpace == {<<>>, <<" ">>}

\* 'Artículo <digits>[-<LETTER>]' followed by '.-', with whitespace around
\* the line and between the word, the number and the '.-'
HeaderFormTexts ==
    {a \o ARTICULO_WORD \o b \o d \o x \o c \o <<".", "-">> \o e \o f :
        a \in LeadSpace, b \in WordGap, d \in Digits, x \in LetterSuffix,
        c \in DotGap, e \in AfterHeader, f \in TrailSpace}

\* 'Artículo <digits>' that no '.-' follows
BareFormTexts ==
    {a \o ARTICULO_WORD \o b \o d \o x \o e \o f :
        a \in LeadSpace, b \in WordGap, d \in Digits, x \in LetterSuffix,
        e \in AfterBare, f \in TrailSpace}

OtherTexts ==
    {TXT_BLANK, TXT_TITULO, TXT_UPPER, TXT_TITLE, TXT_BODY, TXT_FOOTNOTE,
     LIBRO_WORD, CAPITULO_WORD, SECCION_WORD,
     ARTICULO_WORD \o <<"4", "5", ".", "-">>, <<"4", ".", " ", "E", "l">>}

ClassifyTexts == HeaderFormTexts \cup BareFormTexts \cup OtherTexts

FontSizes == {80, 85, 90, 100}

\* word lines of a column: one that matches the line, one that does not
WordLinesFor(t) ==
    {[text |-> w, is_bold |-> b, size |-> z] :
        w \in {strip(t), TXT_BODY}, b \in BOOLEAN, z \in FontSizes}

InitClassify ==
    /\ line_text_in \in ClassifyTexts
    /\ word_lines_in \in SeqsUpTo(WordLinesFor(line_text_in), MaxWordLines)
    /\ line_type = None
    /\ cpc = "line"
    /\ IdleSplit /\ IdleLayout /\ IdleStream

NextClassify == Classify

SpecClassify == InitClassify /\ [][NextClassify]_vars

\* C7: a line 'Artículo <digits>[-<LETTER>]' followed by '.-', with any
\* whitespace around the line and between its parts, is classified ARTICULO
\* whatever the word lines say; a line 'Artículo <digits>' without '.-' is
\* never classified ARTICULO.
C7_ClassificationStable ==
    cpc = "typed" =>
        /\ line_text_in \in HeaderFormTexts => line_type = "ARTICULO"
        /\ line_text_in \in BareFormTexts => line_type # "ARTICULO"

\* a header with whitespace around it and before '.-', classified against a
\* matching bold word line of title size
C7_Witness ==
    /\ cpc = "typed"
    /\ line_text_in \in HeaderFormTexts
    /\ line_text_in[1] = " "
    /\ Contains(line_text_in, <<" ", ".", "-">>)
    /\ Len(word_lines_in) = 1
    /\ word_lines_in[1].is_bold
    /\ word_lines_in[1].size = 90
    /\ word_lines_in[1].text = strip(line_text_in)
    /\ line_type = "ARTICULO"

-----------------------------------------------------------------------------
(* scripts/extract_pdf.py: the stream builder of extract_with_metadata     *)
(* (lines 13-16 and 50-80).  The text and the word lines of a column are   *)
(* what pdfplumber extracts from its bounding box.                         *)

\* for bbox in [left_bbox, right_bbox]: text_lines and word_lines of the box
ExtractColumn(tl, wl) ==
    /\ spc = "crop"
    /\ text_lines' = tl
    /\ col_word_lines' = wl
    /\ pos' = 0
    /\ spc' = "lines"
    /\ UNCHANGED <<num_pages, page_num, col, all_text_lines, headers,
                   current_line_num>>
    /\ UNCHANGED <<splitVars, layoutVars, classVars>>

\* the loop body with the line counter advanced for a skipped line as well
ProcessLine_m ==
    /\ spc = "lines"
    /\ pos < Len(text_lines)
    /\ LET line_text == PyAt(text_lines, pos)
           line_text_stripped == strip(line_text)
           type == detect_line_type(line_text_stripped, col_word_lines)
       IN  IF line_text_stripped = <<>>
           THEN /\ current_line_num' = current_line_num + 1
                /\ UNCHANGED <<all_text_lines, headers>>
           ELSE /\ all_text_lines' = Append(all_text_lines, line_text)
                /\ headers' = IF type # None
                              THEN Append(headers,
                                          [line |-> current_line_num,
                                           type |-> type,
                                           text |-> line_text_stripped,
                                           page |-> page_num + 1])
                              ELSE headers
                /\ current_line_num' = current_line_num + 1
    /\ pos' = pos + 1
    /\ UNCHANGED <<num_pages, page_num, col, text_lines, col_word_lines, spc>>
    /\ UNCHANGED <<splitVars, layoutVars, classVars>>

\* for line_text in text_lines: one iteration
ProcessLine ==
    /\ spc = "lines"
    /\ pos < Len(text_lines)
    /\ LET line_text == PyAt(text_lines, pos)
           line_text_stripped == strip(line_text)
           type == detect_line_type(line_text_stripped, col_word_lines)
       IN  IF line_text_stripped = <<>>
           THEN UNCHANGED <<all_text_lines, headers, current_line_num>>
           ELSE /\ all_text_lines' = Append(all_text_lines, line_text)
                /\ headers' = IF type # None
                              THEN Append(headers,
                                          [line |-> current_line_num,
                                           type |-> type,
                                           text |-> line_text_stripped,
                                           page |-> page_num + 1])
                              ELSE headers
                /\ current_line_num' = current_line_num + 1
    /\ pos' = pos + 1
    /\ UNCHANGED <<num_pages, page_num, col, text_lines, col_word_lines, spc>>
    /\ UNCHANGED <<splitVars, layoutVars, classVars>>

\* the end of a column: the right column, the next page, or the end of the
\* document
EndColumn ==
    /\ spc = "lines"
    /\ pos = Len(text_lines)
    /\ IF col = 0
       THEN col' = 1 /\ spc' = "crop" /\ UNCHANGED page_num
       ELSE IF page_num + 1 < num_pages
            THEN page_num' = page_num + 1 /\ col' = 0 /\ spc' = "crop"
            ELSE spc' = "done" /\ UNCHANGED <<page_num, col>>
    /\ UNCHANGED <<num_pages, text_lines, col_word_lines, pos, all_text_lines,
                   headers, current_line_num>>
    /\ UNCHANGED <<splitVars, layoutVars, classVars>>

MaxPages == 2

TXT_SP_TITLE == <<" ">> \o TXT_TITLE
TXT_SP_ART_15 == <<" ">> \o TXT_ART_15

BoldTitleWords == <<[text |-> TXT_TITLE, is_bold |-> TRUE, size |-> 90]>>

\* what a bounding box can hold: no text (split gives one empty line); a
\* whitespace line and a bold title; an article header and a body line; a
\* body line, an empty line and a title that is not bold; an article header
\* and a bold title
Columns ==
    {[text_lines |-> << <<>> >>, word_lines |-> <<>>],
     [text_lines |-> <<TXT_BLANK, TXT_SP_TITLE>>, word_lines |-> BoldTitleWords],
     [text_lines |-> <<TXT_SP_ART_15, TXT_BODY>>, word_lines |-> <<>>],
     [text_lines |-> <<TXT_BODY, <<>>, TXT_SP_TITLE>>, word_lines |-> <<>>],
     [text_lines |-> <<TXT_ART_15, TXT_TITLE>>, word_lines |-> BoldTitleWords]}

InitStream ==
    /\ num_pages \in 1..MaxPages
    /\ page_num = 0
    /\ col = 0
    /\ text_lines = <<>>
    /\ col_word_lines = <<>>
    /\ pos = 0
    /\ all_text_lines = <<>>
    /\ headers = <<>>
    /\ current_line_num = 0
    /\ spc = "crop"
    /\ IdleSplit /\ IdleLayout /\ IdleClass

NextStream ==
    \/ \E c \in Columns : ExtractColumn(c.text_lines, c.word_lines)
    \/ ProcessLine
    \/ EndColumn

SpecStream == InitStream /\ [][NextStream]_vars

\* C9: current_line_num is the number of lines in the flat stream, no line
\* of the stream is empty or whitespace-only, every header entry's line is
\* the position in the stream of the line it was classified from (its text
\* is that line stripped), and the lines of successive entries strictly
\* increase.
C9_StreamIndexConsistent ==
    /\ current_line_num = Len(all_text_lines)
    /\ \A k \in 1..Len(all_text_lines) : strip(all_text_lines[k]) # <<>>
    /\ \A k \in 1..Len(headers) :
          /\ 0 <= headers[k].line
          /\ headers[k].line < Len(all_text_lines)
          /\ headers[k].text = strip(PyAt(all_text_lines, headers[k].line))
    /\ \A j, k \in 1..Len(headers) : j < k => headers[j].line < headers[k].line

\* the second page, after a column whose empty first line was skipped and
\* whose second line became the third header or later, with an unclassified
\* line in the stream
C9_Witness ==
    /\ spc = "done"
    /\ page_num = 1
    /\ Len(text_lines) = 2
    /\ strip(text_lines[1]) = <<>>
    /\ Len(headers) >= 3
    /\ headers[Len(headers)].text = strip(text_lines[2])
    /\ headers[Len(headers)].line = current_line_num - 1
    /\ headers[Len(headers)].page = 2
    /\ Len(all_text_lines) > Len(headers)

-----------------------------------------------------------------------------
(* Properties of split_articles and join_article_texts.  written[k] is     *)
(* the file of the k-th article in document order, with its line range     *)
(* [start, end); articles[k].line is that article's header line.           *)

SplitDone == pc \in {"written", "done"}

InRange(l, r) == r.start <= l /\ l < r.end

\* the ranges among rs that contain line l
Holders(l, rs) == {k \in 1..Len(rs) : InRange(l, rs[k])}

\* C1: after every iteration of the per-article loop the ranges written so
\* far satisfy start_i <= end_i <= start_{i+1}, the first start is not
\* negative, and once the loop has ended the last range ends at len(lines).
C1_Coverage ==
    /\ \A k \in 1..Len(written) : written[k].start <= written[k].end
    /\ \A k \in 1..(Len(written) - 1) : written[k].end <= written[k + 1].start
    /\ Len(written) >= 1 => written[1].start >= 0
    /\ (SplitDone /\ Len(written) >= 1) => written[Len(written)].end = Len(lines)
    /\ pc = "loop" => prev_end_line = (IF i = 0 THEN 0 ELSE written[i].end)

\* three articles written, one of which starts above its own header line
C1_Witness ==
    /\ pc = "done"
    /\ Len(written) >= 3
    /\ \E k \in 2..Len(written) : written[k].start < articles[k].line

\* C2: with at least one article, every line index of the stream
\* falls in exactly one article's range.
C2_RoundTripAll ==
    (SplitDone /\ Len(written) >= 1) =>
        \A l \in 0..(Len(lines) - 1) : Cardinality(Holders(l, written)) = 1

\* every line s..a-1 carries a heading type in the metadata
HeadingRun(s, a) ==
    \A l \in s..(a - 1) : l \in DOMAIN line_meta /\ line_meta[l].type \in HeadingTypes

\* C3: when every line from s up to the line before an article's header is
\* a heading line of the metadata, the header is fewer than Window lines
\* after s, and s is not inside the previous article's range, the article's
\* range reaches back to s, also for s = 0; the heading scenario is split
\* into [0,3) and [3,4).
C3_HeadingAbsorption ==
    /\ \A k \in 1..Len(written) : \A s \in 0..(articles[k].line - 1) :
          ( /\ HeadingRun(s, articles[k].line)
            /\ articles[k].line - s < Window
            /\ (k > 1 => s >= written[k - 1].end) )
          => written[k].start <= s
    /\ ( /\ SplitDone
         /\ Len(lines) = 4
         /\ [k \in 1..Len(metadata) |-> <<metadata[k].line, metadata[k].type>>]
              = <<<<0, "TITULO">>, <<1, "H2">>, <<2, "ARTICULO">>, <<3, "ARTICULO">>>> )
       => /\ written[1].start = 0 /\ written[1].end = 3
          /\ written[2].start = 3 /\ written[2].end = 4

\* C4: when the line right before the header of article k+1 is a footnote
\* line, that line is outside the range of article k+1 and inside the range
\* of article k, whatever type the metadata gives it.
C4_FootnoteAttribution ==
    \A k \in 1..(Len(written) - 1) :
        LET l == articles[k + 1].line - 1
        IN  is_footnote_line(PyAt(lines, l)) =>
                /\ ~InRange(l, written[k + 1])
                /\ InRange(l, written[k])

\* C5: one file per article descriptor, pairwise distinct file names, and
\* the names in lexicographic order are the articles in document order.
C5_FilenamePolicy ==
    /\ Cardinality(DOMAIN out_dir) = Len(written)
    /\ SplitDone => Len(written) = Len(articles)
    /\ \A k \in 1..Len(written) :
          /\ written[k].name \in DOMAIN out_dir
          /\ out_dir[written[k].name] = [start |-> written[k].start, end |-> written[k].end]
    /\ \A k, m \in 1..Len(written) : k < m => StrLess(written[k].name, written[m].name)

\* ten or more articles, among them a repeated number, a lettered number
\* and a number smaller than the one before it
C5_Witness ==
    /\ pc = "done"
    /\ Len(written) >= 10
    /\ \E k \in 1..(Len(articles) - 1) : articles[k].num = articles[k + 1].num
    /\ \E k \in 1..Len(articles) : Contains(articles[k].num, <<"-">>)
    /\ \E k \in 1..(Len(articles) - 1) :
          int(Slice(articles[k + 1].num, 0, SkipRun(articles[k + 1].num, 0, DigitChars)))
            < int(Slice(articles[k].num, 0, SkipRun(articles[k].num, 0, DigitChars)))

\* C8: join_article_texts reads the article files in document order, for
\* every sequence of declared numbers.
C8_JoinOrder ==
    pc = "done" => joined = [k \in 1..Len(written) |-> written[k].name]

\* C10: the start of every next article's range is the end of the
\* range before it.
C10_Contiguity ==
    \A k \in 1..(Len(written) - 1) : written[k + 1].start = written[k].end

\* C11: every article's range holds its own header line,
\* start_i <= header_i < end_i, and the header line of no other article.
C11_HeaderContainment ==
    \A k \in 1..Len(written) :
        /\ written[k].start <= articles[k].line
        /\ articles[k].line < written[k].end
        /\ \A m \in 1..Len(articles) :
              m # k => ~InRange(articles[m].line, written[k])

\* two articles written, the first with a body line below its header and
\* the second with a title block above its header
C11_Witness ==
    /\ pc = "done"
    /\ Len(written) >= 2
    /\ written[1].end > articles[1].line + 1
    /\ written[2].start < articles[2].line
    /\ written[2].start >= written[1].end

=============================================================================
